---- MODULE Spec2Model ----
(***************************************************************************)
(* Model of phystech.file.File: a reader of hierarchical (HDF5) data files *)
(* that resolves short channel names by substring search and aligns the    *)
(* samples of several channels into one table by their position counter.   *)
(*                                                                         *)
(* A string is a sequence of one-character strings.  A node of the         *)
(* container is identified by its path, a sequence of segment names; its   *)
(* full name is the segments joined by "/" (relative to the root, as       *)
(* visititems reports it).                                                 *)
(***************************************************************************)
EXTENDS Integers, Sequences, FiniteSets

VARIABLES container, handle, status, posMaster, maxPos, info, lastSearch,
          call, result, visited, csv

vars == <<container, handle, status, posMaster, maxPos, info, lastSearch,
          call, result, visited, csv>>

(***************************************************************************)
(* Bounds of the explored inputs.                                          *)
(***************************************************************************)
MaxNodes == 2
MaxSamples == 2

(***************************************************************************)
(* Strings.                                                                *)
(***************************************************************************)
\* byte value of a character: the container iterates names in byte order
CharCode(c) == CASE c = "/" -> 47 [] c = "a" -> 97 [] c = "b" -> 98 [] OTHER -> 120

\* Python's None, and the value of an attribute that was never assigned
None == <<"None">>
NoAttr == <<"unset">>
\* a number or a text that was never assigned
NoValue == <<>>

\* sub in s (Python's substring test on str)
IsSubstr(sub, s) ==
  \E i \in 0..(Len(s) - Len(sub)) : SubSeq(s, i + 1, i + Len(sub)) = sub

\* strcmp(s, t) < 0
RECURSIVE StrLess(_, _)
StrLess(s, t) ==
  IF t = <<>> THEN FALSE
  ELSE IF s = <<>> THEN TRUE
  ELSE IF Head(s) = Head(t) THEN StrLess(Tail(s), Tail(t))
  ELSE CharCode(Head(s)) < CharCode(Head(t))

\* the full name of a node: its segments joined by "/"
RECURSIVE FullName(_)
FullName(path) ==
  IF Len(path) = 1 THEN path[1]
  ELSE path[1] \o <<"/">> \o FullName(Tail(path))

\* '%i' % n
RECURSIVE Digits(_)
Digits(n) ==
  LET d == <<"0", "1", "2", "3", "4", "5", "6", "7", "8", "9">>
  IN IF n < 10 THEN <<d[n + 1]>> ELSE Digits(n \div 10) \o <<d[(n % 10) + 1]>>

FormatInt(n) == IF n < 0 THEN <<"-">> \o Digits(0 - n) ELSE Digits(n)

(***************************************************************************)
(* The container: the h5py.File part of the object.                        *)
(***************************************************************************)
Root == <<>>

\* the members of group g
Children(c, g) ==
  {p \in c.nodes : Len(p) = Len(g) + 1 /\ SubSeq(p, 1, Len(g)) = g}

\* the members of a group in increasing name order
RECURSIVE SortByName(_)
SortByName(ps) ==
  IF ps = {} THEN <<>>
  ELSE LET first == CHOOSE p \in ps :
                      \A q \in ps \ {p} : StrLess(p[Len(p)], q[Len(q)])
       IN <<first>> \o SortByName(ps \ {first})

\* list(group.keys())
Keys(c, g) ==
  LET s == SortByName(Children(c, g)) IN [i \in 1..Len(s) |-> s[i][Len(s[i])]]

\* the order in which visititems reaches the nodes below g: every member in
\* name order, each group followed by everything below it
RECURSIVE WalkSeq(_, _)
Walk(c, g) == WalkSeq(c, SortByName(Children(c, g)))
WalkSeq(c, ps) ==
  IF ps = <<>> THEN <<>>
  ELSE <<Head(ps)>> \o Walk(c, Head(ps)) \o WalkSeq(c, Tail(ps))

\* a callback that accepts only a node whose full name is the name itself
match_exact(ls, name) == IF ls = name THEN name ELSE None

\* File.__match__: the callback of the search, reading the lastSearch field
match(ls, name) == IF IsSubstr(ls, name) THEN name ELSE None

\* visititems(func): call func on each node in walk order and stop at the
\* first result that is not None
RECURSIVE VisitFrom(_, _, _, _)
VisitStep(order, i, ls, seen, r) ==
  IF r # None THEN [ret |-> r, visited |-> seen]
  ELSE VisitFrom(order, i + 1, ls, seen)
VisitFrom(order, i, ls, seen) ==
  IF i > Len(order) THEN [ret |-> None, visited |-> seen]
  ELSE VisitStep(order, i, ls, Append(seen, FullName(order[i])),
                 match(ls, FullName(order[i])))

visititems(c, ls) == VisitFrom(Walk(c, Root), 1, ls, <<>>)

\* a search that assigns lastSearch only while it is unassigned
search_once(c, prev, name) ==
  IF prev = NoAttr THEN [ret |-> visititems(c, name).ret,
                         visited |-> visititems(c, name).visited,
                         lastSearch |-> name]
  ELSE [ret |-> visititems(c, prev).ret,
        visited |-> visititems(c, prev).visited, lastSearch |-> prev]

\* File.search: store the name in lastSearch, then visit with the callback
\* reading that field.  'prev' is the value the field had before the call.
Searched(ls, v) == [ret |-> v.ret, visited |-> v.visited, lastSearch |-> ls]
search(c, prev, name) == Searched(name, visititems(c, name))

\* the node whose full name is 'name', or Root when there is none
NodeAt(c, name) ==
  IF \E p \in c.nodes : FullName(p) = name
  THEN CHOOSE p \in c.nodes : FullName(p) = name
  ELSE Root

\* a read that yields an empty dataset for a path that is None
ReadAll_skip(c, key, p) ==
  IF key = None THEN [err |-> "none", node |-> Root, rows |-> <<>>]
  ELSE IF c.kind[p] = "group"
  THEN [err |-> "TypeError", node |-> p, rows |-> <<>>]
  ELSE [err |-> "none", node |-> p, rows |-> c.rows[p]]

\* self[key][...]: the whole dataset at the path 'key'; None is no path,
\* and a group cannot be sliced
ReadAll(c, key, p) ==
  IF key = None THEN [err |-> "TypeError", node |-> Root, rows |-> <<>>]
  ELSE IF c.kind[p] = "group"
  THEN [err |-> "TypeError", node |-> p, rows |-> <<>>]
  ELSE [err |-> "none", node |-> p, rows |-> c.rows[p]]

\* File.get_data: self[self.search(datasetName)][...]
WithSearch(r, s) == [err |-> r.err, node |-> r.node, rows |-> r.rows, s |-> s]
GetItem(c, s) == WithSearch(ReadAll(c, s.ret, NodeAt(c, s.ret)), s)
get_data(c, prev, name) == GetItem(c, search(c, prev, name))

(***************************************************************************)
(* Table assembly (File.get_data_frame).                                   *)
(***************************************************************************)
\* the posCounter argument of the constructor (its default)
posCounter == "PosCounter"

\* dataset.dtype.names: the field names of every dataset's records
FieldNames == <<"PosCounter", "Value">>

\* a table cell: numpy.nan, or a number
NaN == <<>>
Cell(v) == <<v>>

\* the last element of the column instead of its maximum
MaxOf_last(s) == s[Len(s)]

\* numpy.max(column); the column is not empty
RECURSIVE MaxOf(_)
MaxOf(s) ==
  IF Len(s) = 1 THEN s[1]
  ELSE LET m == MaxOf(Tail(s)) IN IF s[1] > m THEN s[1] ELSE m

Column(rows, field) == [i \in 1..Len(rows) |-> rows[i][field]]

\* numpy.full((maxPos, nCols), numpy.nan)
Full(nRows, nCols) == [r \in 1..nRows |-> [k \in 1..nCols |-> NaN]]

\* does row number r index an axis of length n (negative numbers count from
\* the end)
InAxis(r, n) == (0 - n) <= r /\ r < n

\* the 1-based row of the model's table that row number r denotes
RowIndex(r, n) == IF r < 0 THEN r + n + 1 ELSE r + 1

\* d[rowNums, col] = values: the assignments happen in sample order, so that
\* a later sample overwrites an earlier one of the same row
RECURSIVE Scatter(_, _, _, _, _)
Scatter(d, rowNums, values, col, i) ==
  IF i > Len(rowNums) THEN d
  ELSE Scatter([d EXCEPT ![RowIndex(rowNums[i], Len(d))] =
                           [@ EXCEPT ![col] = Cell(values[i])]],
               rowNums, values, col, i + 1)

\* row numbers without the conversion to 0-based indices
RowNums_raw(rows) == [i \in 1..Len(rows) |-> rows[i][posCounter]]

\* dataset[self.posCounter] - 1
RowNums(rows) == [i \in 1..Len(rows) |-> rows[i][posCounter] - 1]

\* the loop of get_data_frame from column 'col' on; FillCol is one pass of
\* its body on the dataset that get_data returned
RECURSIVE FillFrom(_, _, _, _, _)
FillCol(c, d, args, col, dataset) ==
  IF dataset.err # "none"
  THEN [err |-> dataset.err, d |-> <<>>, lastSearch |-> dataset.s.lastSearch]
  ELSE IF \E i \in 1..Len(dataset.rows) :
            ~InAxis(RowNums(dataset.rows)[i], Len(d))
  THEN [err |-> "IndexError", d |-> <<>>, lastSearch |-> dataset.s.lastSearch]
  ELSE FillFrom(c, dataset.s.lastSearch,
                Scatter(d, RowNums(dataset.rows),
                        Column(dataset.rows, FieldNames[2]), col, 1),
                args, col + 1)
FillFrom(c, ls, d, args, col) ==
  IF col > Len(args) THEN [err |-> "none", d |-> d, lastSearch |-> ls]
  ELSE FillCol(c, d, args, col, get_data(c, ls, args[col]))

\* DataFrame.to_csv(file, index=False): a header of the column names and one
\* line per row; a missing cell is written as the empty string
CsvCell(x) == IF x = NaN THEN <<>> ELSE FormatInt(x[1]) \o <<".", "0">>
NoCsv == [written |-> FALSE, header |-> <<>>, lines |-> <<>>]
to_csv(args, d) ==
  [written |-> TRUE, header |-> args,
   lines |-> [r \in 1..Len(d) |-> [k \in 1..Len(args) |-> CsvCell(d[r][k])]]]

\* File.get_data_frame(*args, file=file)
Framed(f, args, file) ==
  IF f.err # "none"
  THEN [err |-> f.err, d |-> <<>>, lastSearch |-> f.lastSearch, csv |-> NoCsv]
  ELSE [err |-> "none", d |-> f.d, lastSearch |-> f.lastSearch,
        csv |-> IF file # None THEN to_csv(args, f.d) ELSE NoCsv]
get_data_frame(c, prev, mp, args, file) ==
  IF mp < 0
  THEN [err |-> "ValueError", d |-> <<>>, lastSearch |-> prev, csv |-> NoCsv]
  ELSE Framed(FillFrom(c, prev, Full(mp, Len(args)), args, 1), args, file)

(***************************************************************************)
(* Attributes and the summary text.  A text is a sequence of lines.        *)
(***************************************************************************)
\* self[name]: the root for "/", a node for its full name
HasItem(c, name) == name = <<"/">> \/ \E p \in c.nodes : FullName(p) = name
Item(c, name) == IF name = <<"/">> THEN Root ELSE NodeAt(c, name)
IsGroup(c, p) == p = Root \/ c.kind[p] = "group"

\* the stored attributes of a node: only the root carries any
AttrsOf(c, p) == IF p = Root THEN c.attrs ELSE <<>>

\* File.get_attrs: each field with the first element of its contents
get_attrs(c, name) ==
  LET a == AttrsOf(c, Item(c, name))
  IN [i \in 1..Len(a) |-> <<a[i].field, a[i].contents[1]>>]

\* str.strip() on a text: leading and trailing empty lines go
RECURSIVE StripLeft(_)
StripLeft(t) ==
  IF t # <<>> /\ Head(t) = <<>> THEN StripLeft(Tail(t)) ELSE t
RECURSIVE StripRight(_)
StripRight(t) ==
  IF t # <<>> /\ t[Len(t)] = <<>> THEN StripRight(SubSeq(t, 1, Len(t) - 1))
  ELSE t
Strip(t) == StripRight(StripLeft(t))

\* File.print_attrs
print_attrs(c, name) ==
  LET a == get_attrs(c, name)
      attrLines == [i \in 1..Len(a) |-> a[i][1] \o <<":", "\t">> \o a[i][2]]
      groupLines == IF IsGroup(c, Item(c, name))
                    THEN <<<<>>, <<"Groups:">>>> \o Keys(c, Item(c, name))
                    ELSE <<>>
  IN Strip(attrLines \o groupLines)

\* the summary built by the constructor
Summary(c, mp) ==
  <<<<"filename">>, <<>>>> \o print_attrs(c, <<"/">>)
    \o <<<<>>, <<"MaxPosCounter:", "\t">> \o FormatInt(mp)>>

(***************************************************************************)
(* File.__init__(fileName, posMaster=pm): the fields of the object and the *)
(* outcome of the construction.                                            *)
(***************************************************************************)
\* after super().__init__: the file is open and nothing else is assigned
Opened ==
  [handle |-> "open", err |-> "none", posMaster |-> NoAttr,
   maxPos |-> NoValue, info |-> NoValue, lastSearch |-> NoAttr]

\* lines 51-57, on the dataset that get_data(self.posMaster) returned
InitMaxPos(c, o, dataset) ==
  IF dataset.err # "none"
  THEN [o EXCEPT !.err = dataset.err, !.lastSearch = dataset.s.lastSearch]
  ELSE IF dataset.rows = <<>>
  THEN [o EXCEPT !.err = "ValueError", !.lastSearch = dataset.s.lastSearch]
  ELSE [o EXCEPT !.maxPos = <<MaxOf(Column(dataset.rows, posCounter))>>,
                 !.info = Summary(c, MaxOf(Column(dataset.rows, posCounter))),
                 !.lastSearch = dataset.s.lastSearch]

\* a constructor without the test of the search result
InitMaster_unchecked(c, s) ==
  InitMaxPos(c, [Opened EXCEPT !.posMaster = s.ret,
                               !.lastSearch = s.lastSearch],
             get_data(c, s.lastSearch, s.ret))

\* lines 48-50, on the result of search(posMaster)
InitMaster(c, s) ==
  IF s.ret = None
  THEN [Opened EXCEPT !.posMaster = s.ret, !.lastSearch = s.lastSearch,
                      !.err = "KeyError"]
  ELSE InitMaxPos(c, [Opened EXCEPT !.posMaster = s.ret,
                                    !.lastSearch = s.lastSearch],
                  get_data(c, s.lastSearch, s.ret))

init(c, pm) == InitMaster(c, search(c, NoAttr, pm))

(***************************************************************************)
(* The containers explored.                                                *)
(***************************************************************************)
Segs == {<<"a", "b">>, <<"b">>}
AllPaths == {<<s>> : s \in Segs} \cup {<<s, t>> : s \in Segs, t \in Segs}
PosVals == {0 - 1, 0, 1, 2}
RootAttrs == <<[field |-> <<"Kind">>, contents |-> <<<<"PTB">>, <<"x">>>>],
              [field |-> <<"Run">>, contents |-> <<<<"7">>>>]>>

PrefixClosed(ns) ==
  \A p \in ns : Len(p) > 1 => SubSeq(p, 1, Len(p) - 1) \in ns

\* the position of node p in the walk of the node set ns
Rank(ns, p) ==
  LET w == Walk([nodes |-> ns], Root) IN CHOOSE i \in 1..Len(w) : w[i] = p

\* trees of groups and datasets up to two levels deep; the dataset that is
\* the k-th node of the walk holds one sample, of position k and value 10 k;
\* the root of a one-node tree carries attributes
TreeContainers ==
  {[nodes |-> ns, kind |-> k,
    attrs |-> IF Cardinality(ns) = 1 THEN RootAttrs ELSE <<>>,
    rows |-> [p \in ns |->
                IF k[p] = "dataset"
                THEN <<[PosCounter |-> Rank(ns, p),
                        Value |-> 10 * Rank(ns, p)]>>
                ELSE <<>>]] :
     <<ns, k>> \in
       {t \in UNION {{<<ns, k>> : k \in [ns -> {"group", "dataset"}]} :
                       ns \in {m \in SUBSET AllPaths :
                                 Cardinality(m) <= MaxNodes /\ PrefixClosed(m)}} :
          \A p \in t[1] :
            Children([nodes |-> t[1]], p) # {} => t[2][p] = "group"}}

\* sample sequences of at most n samples with positions from PosVals; the
\* i-th sample has the value base + i
RowSeqs(n, base) ==
  UNION {{[i \in 1..m |-> [PosCounter |-> ps[i], Value |-> base + i]] :
            ps \in [1..m -> PosVals]} : m \in 0..n}

\* two datasets side by side: "a" with arbitrary position counters, "b"
\* with one sample
FlatContainers ==
  {[nodes |-> {<<<<"a">>>>, <<<<"b">>>>},
    kind |-> [p \in {<<<<"a">>>>, <<<<"b">>>>} |-> "dataset"],
    attrs |-> <<>>,
    rows |-> [p \in {<<<<"a">>>>, <<<<"b">>>>} |->
                IF p = <<<<"a">>>> THEN ra ELSE rb]] :
     ra \in RowSeqs(MaxSamples, 10),
     rb \in {<<[PosCounter |-> 1, Value |-> 21]>>,
             <<[PosCounter |-> 2, Value |-> 21]>>}}

\* the names callers pass: short names, and the full names of the nodes
ShortNames == {<<"a">>, <<"b">>, <<"x">>}
FullNames(c) == {FullName(p) : p \in c.nodes}
NameArgs(c) == ShortNames \cup FullNames(c)
ArgLists ==
  {<<>>} \cup {<<n>> : n \in ShortNames}
         \cup {<<n, m>> : n \in ShortNames, m \in ShortNames}
FileArgs == {None, <<"out.csv">>}

NoCall == [op |-> "none", args |-> <<>>, file |-> None]
NoResult == [err |-> "none", kind |-> "none", val |-> <<>>, node |-> Root]
Ok(kind, val, node) == [err |-> "none", kind |-> kind, val |-> val, node |-> node]
Raised(err) == [err |-> err, kind |-> "none", val |-> <<>>, node |-> Root]

(***************************************************************************)
(* The state machine.  'call' is the call made last, 'result' what it      *)
(* returned or raised, 'visited' the nodes its last search handed to the   *)
(* callback, 'csv' what it exported.                                       *)
(***************************************************************************)
Init ==
  /\ container \in TreeContainers \cup FlatContainers
  /\ handle = "unopened"
  /\ status = "new"
  /\ posMaster = NoAttr
  /\ maxPos = NoValue
  /\ info = NoValue
  /\ lastSearch = NoAttr
  /\ call = NoCall
  /\ result = NoResult
  /\ visited = <<>>
  /\ csv = NoCsv

\* f = File(fileName, posMaster=pm)
Construct(pm) ==
  /\ status = "new"
  /\ \E o \in {init(container, pm)} :
        /\ handle' = o.handle
        /\ status' = IF o.err = "none" THEN "ready" ELSE "failed"
        /\ posMaster' = o.posMaster
        /\ maxPos' = o.maxPos
        /\ info' = o.info
        /\ lastSearch' = o.lastSearch
        /\ result' = IF o.err = "none" THEN NoResult ELSE Raised(o.err)
  /\ call' = [op |-> "init", args |-> <<pm>>, file |-> None]
  /\ visited' = <<>>
  /\ UNCHANGED <<container, csv>>

\* a search that also stores its result as the master channel
Search_storing(name) ==
  /\ status = "ready"
  /\ \E s \in {search(container, lastSearch, name)} :
        /\ lastSearch' = s.lastSearch
        /\ visited' = s.visited
        /\ result' = Ok("path", s.ret, Root)
        /\ posMaster' = s.ret
  /\ call' = [op |-> "search", args |-> <<name>>, file |-> None]
  /\ csv' = NoCsv
  /\ UNCHANGED <<container, handle, status, maxPos, info>>

\* f.search(name)
Search(name) ==
  /\ status = "ready"
  /\ \E s \in {search(container, lastSearch, name)} :
        /\ lastSearch' = s.lastSearch
        /\ visited' = s.visited
        /\ result' = Ok("path", s.ret, Root)
  /\ call' = [op |-> "search", args |-> <<name>>, file |-> None]
  /\ csv' = NoCsv
  /\ UNCHANGED <<container, handle, status, posMaster, maxPos, info>>

\* f.get_data(name)
GetData(name) ==
  /\ status = "ready"
  /\ \E g \in {get_data(container, lastSearch, name)} :
        /\ lastSearch' = g.s.lastSearch
        /\ visited' = g.s.visited
        /\ result' = IF g.err = "none" THEN Ok("rows", g.rows, g.node)
                     ELSE Raised(g.err)
  /\ call' = [op |-> "get_data", args |-> <<name>>, file |-> None]
  /\ csv' = NoCsv
  /\ UNCHANGED <<container, handle, status, posMaster, maxPos, info>>

\* f.get_data_frame(*args, file=file)
GetDataFrame(args, file) ==
  /\ status = "ready"
  /\ \E t \in {get_data_frame(container, lastSearch, maxPos[1], args, file)} :
        /\ lastSearch' = t.lastSearch
        /\ result' = IF t.err = "none" THEN Ok("table", t.d, Root)
                     ELSE Raised(t.err)
        /\ csv' = t.csv
  /\ call' = [op |-> "get_data_frame", args |-> args, file |-> file]
  /\ visited' = <<>>
  /\ UNCHANGED <<container, handle, status, posMaster, maxPos, info>>

\* str(f)
Str ==
  /\ status = "ready"
  /\ result' = Ok("text", info, Root)
  /\ call' = [op |-> "str", args |-> <<>>, file |-> None]
  /\ visited' = <<>>
  /\ csv' = NoCsv
  /\ UNCHANGED <<container, handle, status, posMaster, maxPos, info,
                 lastSearch>>

\* f.children(name)
ChildrenOf(name) ==
  /\ status = "ready"
  /\ result' = IF ~HasItem(container, name) THEN Raised("KeyError")
               ELSE IF ~IsGroup(container, Item(container, name))
               THEN Raised("AttributeError")
               ELSE Ok("list", Keys(container, Item(container, name)), Root)
  /\ call' = [op |-> "children", args |-> <<name>>, file |-> None]
  /\ visited' = <<>>
  /\ csv' = NoCsv
  /\ UNCHANGED <<container, handle, status, posMaster, maxPos, info,
                 lastSearch>>

\* f.get_attrs(name)
GetAttrs(name) ==
  /\ status = "ready"
  /\ result' = IF ~HasItem(container, name) THEN Raised("KeyError")
               ELSE Ok("dict", get_attrs(container, name), Root)
  /\ call' = [op |-> "get_attrs", args |-> <<name>>, file |-> None]
  /\ visited' = <<>>
  /\ csv' = NoCsv
  /\ UNCHANGED <<container, handle, status, posMaster, maxPos, info,
                 lastSearch>>

\* f.print_attrs(name)
PrintAttrs(name) ==
  /\ status = "ready"
  /\ result' = IF ~HasItem(container, name) THEN Raised("KeyError")
               ELSE Ok("text", print_attrs(container, name), Root)
  /\ call' = [op |-> "print_attrs", args |-> <<name>>, file |-> None]
  /\ visited' = <<>>
  /\ csv' = NoCsv
  /\ UNCHANGED <<container, handle, status, posMaster, maxPos, info,
                 lastSearch>>

Next ==
  \/ \E pm \in NameArgs(container) : Construct(pm)
  \/ \E name \in NameArgs(container) : Search(name)
  \/ \E name \in NameArgs(container) : GetData(name)
  \/ \E args \in ArgLists, file \in FileArgs : GetDataFrame(args, file)
  \/ Str
  \/ \E name \in {<<"/">>} \cup NameArgs(container) : ChildrenOf(name)
  \/ \E name \in {<<"/">>} \cup NameArgs(container) : GetAttrs(name)
  \/ \E name \in {<<"/">>} \cup NameArgs(container) : PrintAttrs(name)

Spec == Init /\ [][Next]_vars

(***************************************************************************)
(* Notions the properties are stated with.                                 *)
(***************************************************************************)
\* the full names of the nodes in depth-first order
OrderNames == [i \in 1..Len(Walk(container, Root)) |->
                 FullName(Walk(container, Root)[i])]

\* the places in that order whose full name contains 'name'
Matches(name) == {i \in 1..Len(OrderNames) : IsSubstr(name, OrderNames[i])}
FirstMatch(name) ==
  CHOOSE i \in Matches(name) : \A k \in Matches(name) : i <= k

\* what the name resolves to: the first node containing it, or None
Resolved(name) ==
  IF Matches(name) = {} THEN None ELSE OrderNames[FirstMatch(name)]

IsDataset(name) ==
  \E p \in container.nodes :
    FullName(p) = name /\ container.kind[p] = "dataset"

\* the samples of the dataset with the full name 'name'
SamplesOf(name) == container.rows[NodeAt(container, name)]

\* the samples of channel 'name' at position pos, by their place in the channel
SamplesAt(name, pos) ==
  {i \in 1..Len(SamplesOf(name)) : SamplesOf(name)[i].PosCounter = pos}
LastAt(name, pos) ==
  CHOOSE i \in SamplesAt(name, pos) : \A k \in SamplesAt(name, pos) : k <= i

\* every requested name resolves to a dataset with positions in 1..maxPos
Aligned(args) ==
  \A j \in 1..Len(args) :
    /\ Resolved(args[j]) # None
    /\ IsDataset(Resolved(args[j]))
    /\ \A i \in 1..Len(SamplesOf(Resolved(args[j]))) :
         SamplesOf(Resolved(args[j]))[i].PosCounter \in 1..maxPos[1]

\* some requested name resolves to a dataset with a position outside
\* 1..maxPos
OutOfRange(args) ==
  \E j \in 1..Len(args) :
    /\ Resolved(args[j]) # None
    /\ IsDataset(Resolved(args[j]))
    /\ \E i \in 1..Len(SamplesOf(Resolved(args[j]))) :
         SamplesOf(Resolved(args[j]))[i].PosCounter \notin 1..maxPos[1]

(***************************************************************************)
(* Properties.                                                             *)
(***************************************************************************)
\* C1: search(name) returns the full name of the first node in depth-first
\* order whose full name contains name, having handed the callback the nodes
\* up to that one and none after it; it returns None, without an error, when
\* no full name contains name (and then every node was visited).
SearchFirstMatch ==
  call.op = "search" =>
    /\ result.err = "none"
    /\ result.val = Resolved(call.args[1])
    /\ visited = SubSeq(OrderNames, 1,
                        IF Matches(call.args[1]) = {} THEN Len(OrderNames)
                        ELSE FirstMatch(call.args[1]))

\* a search that matched and left a later node unvisited
SearchStoppedEarly ==
  /\ call.op = "search"
  /\ result.val # None
  /\ Len(visited) < Len(OrderNames)

\* C2: when every requested name resolves to a dataset with positions in
\* 1..maxPos, the table get_data_frame returns has maxPos rows, and its cell
\* (r, j) is the value of the last sample of channel j at position r, and NaN
\* when that channel has no sample there; the call does return a table
\* unless maxPos is negative.
FrameAligned ==
  (call.op = "get_data_frame" /\ Aligned(call.args)) =>
    /\ maxPos[1] >= 0 => result.err = "none"
    /\ result.err = "none" =>
         /\ result.kind = "table"
         /\ Len(result.val) = maxPos[1]
    /\ \A r \in 1..maxPos[1] :
         /\ Len(result.val[r]) = Len(call.args)
         /\ \A j \in 1..Len(call.args) :
              result.val[r][j] =
                IF SamplesAt(Resolved(call.args[j]), r) = {} THEN NaN
                ELSE <<SamplesOf(Resolved(call.args[j]))[
                         LastAt(Resolved(call.args[j]), r)].Value>>

\* a table of two different channels with a missing cell, a filled cell and
\* a position sampled twice
FrameWithGapAndRepeat ==
  /\ call.op = "get_data_frame"
  /\ Aligned(call.args)
  /\ Len(call.args) = 2
  /\ Resolved(call.args[1]) # Resolved(call.args[2])
  /\ \E r \in 1..maxPos[1] : result.val[r][1] = NaN /\ result.val[r][2] # NaN
  /\ \E r \in 1..maxPos[1] :
       Cardinality(SamplesAt(Resolved(call.args[1]), r)) = 2

\* C3: a constructor whose posMaster name no full name contains raises
\* KeyError with maxPos and info never assigned, and nothing is ever called
\* on the object of a failed construction.
MissingMasterFails ==
  /\ (call.op = "init" /\ Matches(call.args[1]) = {}) =>
       /\ status = "failed"
       /\ result.err = "KeyError"
       /\ maxPos = NoValue
       /\ info = NoValue
  /\ status = "failed" => call.op = "init"

\* a construction that failed for its master channel in a container that
\* has nodes
MasterNotFound ==
  /\ status = "failed"
  /\ result.err = "KeyError"
  /\ container.nodes # {}

\* C4: after a successful construction posMaster is the full name search
\* returned for the constructor's argument, and maxPos is the largest position
\* counter of the dataset with exactly that full name.
MaxPosOfMaster ==
  status = "ready" =>
    /\ call.op = "init" => posMaster = Resolved(call.args[1])
    /\ IsDataset(posMaster)
    /\ \E i \in 1..Len(SamplesOf(posMaster)) :
         maxPos = <<SamplesOf(posMaster)[i].PosCounter>>
    /\ \A i \in 1..Len(SamplesOf(posMaster)) :
         SamplesOf(posMaster)[i].PosCounter <= maxPos[1]

\* a construction from a short name, in a container with another dataset
\* whose largest position differs
MasterAmongOthers ==
  /\ status = "ready"
  /\ call.op = "init"
  /\ call.args[1] # posMaster
  /\ \E p \in container.nodes :
       /\ container.kind[p] = "dataset"
       /\ FullName(p) # posMaster
       /\ container.rows[p] # <<>>
       /\ MaxOf(Column(container.rows[p], posCounter)) # maxPos[1]

\* C5: no call on a constructed object changes maxPos, posMaster or info,
\* and str returns info.
SummaryFixed ==
  [][status = "ready" =>
       /\ maxPos' = maxPos
       /\ posMaster' = posMaster
       /\ info' = info
       /\ call'.op = "str" => (result'.err = "none" /\ result'.val = info)]_vars

\* str called after searches for other names
StrAfterSearch ==
  /\ call.op = "str"
  /\ result.val = info
  /\ lastSearch # posMaster

\* C6: the result of search(name) is the one the same call gives whatever
\* name an earlier call left in lastSearch, and a search repeated right after
\* itself returns the same result.
SearchIgnoresLastSearch ==
  [][(status = "ready" /\ call'.op = "search") =>
       /\ \A ls \in NameArgs(container) \cup {NoAttr} :
            search(container, ls, call'.args[1]).ret = result'.val
       /\ (call.op = "search" /\ call.args = call'.args) =>
            result'.val = result.val]_vars

\* a search that found a node for a name other than the one the
\* constructor left in lastSearch
SearchAfterOther ==
  /\ call.op = "search"
  /\ call.args[1] # posMaster
  /\ result.val # None
  /\ result.val # posMaster

\* C7: get_data_frame with a name that does not resolve raises an error,
\* returns no table and exports nothing, wherever the name stands.
FrameFailsWhole ==
  (call.op = "get_data_frame"
     /\ \E j \in 1..Len(call.args) : Matches(call.args[j]) = {}) =>
    /\ result.err # "none"
    /\ result.kind # "table"
    /\ ~csv.written

\* a failed export call whose first name resolves and whose second does not
FrameFailedAtSecond ==
  /\ call.op = "get_data_frame"
  /\ Len(call.args) = 2
  /\ Matches(call.args[1]) # {}
  /\ IsDataset(Resolved(call.args[1]))
  /\ Matches(call.args[2]) = {}
  /\ call.file # None
  /\ result.err = "TypeError"

\* C8: get_data(p) on the full name p of a dataset returns the samples of
\* the dataset at p itself.
GetDataReadsPath ==
  (call.op = "get_data" /\ IsDataset(call.args[1])) =>
    /\ result.err = "none"
    /\ result.node = NodeAt(container, call.args[1])
    /\ result.val = SamplesOf(call.args[1])

\* C9: get_data_frame raises an error whenever a requested channel has a
\* position counter outside 1..maxPos.
FrameRejectsOutOfRange ==
  (call.op = "get_data_frame" /\ OutOfRange(call.args)) => result.err # "none"

\* C10: a failed construction leaves no open handle.
FailedInitClosesHandle ==
  status = "failed" => handle # "open"

====
